---- MODULE Spec2Model ----
(***************************************************************************)
(* Model of the two code-generation tools of iRacingTelemetrySDK:          *)
(*   findDistinctVars.py  (Catalog Merger)   -> MergerSpec                 *)
(*   csv-to-cs.py         (Literal Generator) -> GeneratorSpec             *)
(*                                                                         *)
(* A Python str is a sequence of one-character strings (a Text), so that   *)
(* strip(), lower(), the ordinal comparison used by sorted() and the       *)
(* f-string concatenation are computed character by character.  A CSV file *)
(* is the sequence of rows the csv module parses from it, each row a       *)
(* sequence of Texts; the first row is the header line.                    *)
(***************************************************************************)
EXTENDS Integers, Sequences, FiniteSets, TLC

(***************************************************************************)
(* Bounds of the model.                                                    *)
(***************************************************************************)
\* most files the glob pattern matches
MaxFiles == 2
\* most runs of the merger over the same directory
MaxRuns == 2
\* most lines after the header in the generator's input table
MaxRows == 2

(***************************************************************************)
(* Python str operations.                                                  *)
(***************************************************************************)
Range(s) == {s[i] : i \in DOMAIN s}

\* the ASCII characters of code points 32..95
Printable ==
  <<" ", "!", "\"", "#", "$", "%", "&", "'", "(", ")", "*", "+", ",", "-",
    ".", "/", "0", "1", "2", "3", "4", "5", "6", "7", "8", "9", ":", ";",
    "<", "=", ">", "?", "@", "A", "B", "C", "D", "E", "F", "G", "H", "I",
    "J", "K", "L", "M", "N", "O", "P", "Q", "R", "S", "T", "U", "V", "W",
    "X", "Y", "Z", "[", "\\", "]", "^", "_">>

\* the ASCII characters of code points 97..126
PrintableLow ==
  <<"a", "b", "c", "d", "e", "f", "g", "h", "i", "j", "k", "l", "m", "n",
    "o", "p", "q", "r", "s", "t", "u", "v", "w", "x", "y", "z", "{", "|",
    "}", "~">>

Index(seq, c) == CHOOSE i \in DOMAIN seq : seq[i] = c

\* ord(c)
Ord(c) ==
  CASE c = "\t" -> 9
    [] c = "\n" -> 10
    [] c = "\f" -> 12
    [] c = "\r" -> 13
    [] c \in Range(Printable) -> 31 + Index(Printable, c)
    [] OTHER -> 96 + Index(PrintableLow, c)

\* str.isspace() of one character
IsSpace(c) == c \in {" ", "\t", "\n", "\r", "\f"}

\* str.lower() of one character
LowerChar(c) == IF c \in Range(Printable) /\ Ord(c) >= 65 /\ Ord(c) <= 90
                THEN PrintableLow[Ord(c) + 32 - 96]
                ELSE c

\* str.lower()
Lower(s) == [i \in DOMAIN s |-> LowerChar(s[i])]

RECURSIVE LStrip(_)
LStrip(s) == IF s # <<>> /\ IsSpace(Head(s)) THEN LStrip(Tail(s)) ELSE s

RECURSIVE RStrip(_)
RStrip(s) == IF s # <<>> /\ IsSpace(s[Len(s)]) THEN RStrip(SubSeq(s, 1, Len(s) - 1)) ELSE s

\* str.strip()
Strip(s) == RStrip(LStrip(s))

\* s < t for two str: ordinal comparison, code point by code point
RECURSIVE StrLess(_, _)
StrLess(s, t) ==
  IF t = <<>> THEN FALSE
  ELSE IF s = <<>> THEN TRUE
  ELSE IF Head(s) # Head(t) THEN Ord(Head(s)) < Ord(Head(t))
  ELSE StrLess(Tail(s), Tail(t))

\* Python's None
None == <<"<None>">>

(***************************************************************************)
(* Column names and field texts.                                           *)
(***************************************************************************)
cName == <<"n", "a", "m", "e">>
cType == <<"t", "y", "p", "e">>
cLength == <<"l", "e", "n", "g", "t", "h">>
cIsTimeValue == <<"i", "s", "T", "i", "m", "e", "V", "a", "l", "u", "e">>
cDesc == <<"d", "e", "s", "c">>
cUnits == <<"u", "n", "i", "t", "s">>
cExtra == <<"e", "x", "t", "r", "a">>
cId == <<"i", "d">>

nSpeed == <<"S", "p", "e", "e", "d">>
nGear == <<"G", "e", "a", "r">>
nRPM == <<"R", "P", "M">>
nLap == <<"L", "a", "p">>
nLapDist == <<"L", "a", "p", "D", "i", "s", "t">>
ndcABS == <<"d", "c", "A", "B", "S">>

tString == <<"S", "t", "r", "i", "n", "g">>
tStringA == <<"S", "t", "r", "i", "n", "g", "[", "]">>
tBoolean == <<"B", "o", "o", "l", "e", "a", "n">>
tBooleanA == <<"B", "o", "o", "l", "e", "a", "n", "[", "]">>
tInt32 == <<"I", "n", "t", "3", "2">>
tInt32A == <<"I", "n", "t", "3", "2", "[", "]">>
tUInt32 == <<"U", "I", "n", "t", "3", "2">>
tUInt32A == <<"U", "I", "n", "t", "3", "2", "[", "]">>
tSingle == <<"S", "i", "n", "g", "l", "e">>
tSingleA == <<"S", "i", "n", "g", "l", "e", "[", "]">>
tDouble == <<"D", "o", "u", "b", "l", "e">>
tDoubleA == <<"D", "o", "u", "b", "l", "e", "[", "]">>
tVector3 == <<"V", "e", "c", "t", "o", "r", "3">>
tsingle == <<"s", "i", "n", "g", "l", "e">>

sOne == <<"1">>
sThree == <<"3">>
sfalse == <<"f", "a", "l", "s", "e">>
strue == <<"t", "r", "u", "e">>
sTrue == <<"T", "r", "u", "e">>
sTRUE == <<"T", "R", "U", "E">>
sFalse == <<"F", "a", "l", "s", "e">>
sNone == <<"N", "o", "n", "e">>
sEmpty == <<>>

dCarSpeed == <<"c", "a", "r", " ", "s", "p", "e", "e", "d">>
dDifferent == <<"d", "i", "f", "f", "e", "r", "e", "n", "t", " ", "d", "e", "s", "c">>
dCurrentGear == <<"c", "u", "r", "r", "e", "n", "t", " ", "g", "e", "a", "r">>
dEngineRpm == <<"e", "n", "g", "i", "n", "e", " ", "r", "p", "m">>
dLaps == <<"l", "a", "p", "s">>
dOtherLaps == <<"o", "t", "h", "e", "r", " ", "l", "a", "p", "s">>
dLapDistance == <<"l", "a", "p", " ", "d", "i", "s", "t", "a", "n", "c", "e">>
dAbs == <<"a", "b", "s", " ", "s", "e", "t", "t", "i", "n", "g">>
dQuoted == <<"s", "a", "y", " ", "\"", "h", "i", "\"">>

uMs == <<"m", "/", "s">>
uMph == <<"m", "p", "h">>
uRevs == <<"r", "e", "v", "s", "/", "m", "i", "n">>
uM == <<"m">>

(***************************************************************************)
(* findDistinctVars.py: the input files the glob pattern can match.        *)
(***************************************************************************)
StdHeader == <<cName, cType, cLength, cIsTimeValue, cDesc, cUnits>>

\* the exported header with stray spacing around the column names
SpacedHeader == <<<<" ">> \o cName, cType \o <<" ">>, cLength, <<" ">> \o cIsTimeValue \o <<" ">>,
                  cDesc, <<"\t">> \o cUnits>>

FileContent ==
  [p \in {"a.csv", "b.csv", "c.csv", "short.csv", "nounits.csv", "extra.csv",
          "long.csv", "reorder.csv", "swapped.csv", "noname.csv", "hdr.csv",
          "empty.csv"} |->
    CASE p = "a.csv" ->
           <<StdHeader,
             <<nSpeed, tSingle, sOne, sfalse, dCarSpeed, uMs>>,
             <<nGear, tInt32, sOne, sfalse, dCurrentGear, sEmpty>>>>
      [] p = "b.csv" ->
           <<StdHeader,
             <<nSpeed, tSingle, sOne, sfalse, dDifferent, uMph>>,
             <<nRPM, tSingle, sOne, sfalse, dEngineRpm, uRevs>>>>
      [] p = "c.csv" ->
           <<SpacedHeader,
             <<ndcABS, tSingle, sOne, sfalse, dAbs, sEmpty>>,
             <<nLapDist, tSingle, sOne, sfalse, dLapDistance, uM>>,
             <<>>,
             <<nLap, tInt32, sOne, sfalse, dLaps, sEmpty>>,
             <<nLap, tInt32, sOne, sfalse, dOtherLaps, sEmpty>>>>
      [] p = "short.csv" ->
           <<StdHeader,
             <<nLap, tInt32>>>>
      [] p = "nounits.csv" ->
           <<<<cName, cType, cLength, cIsTimeValue, cDesc>>,
             <<nRPM, tSingle, sOne, sfalse, dEngineRpm>>>>
      [] p = "extra.csv" ->
           <<<<cName, cType, cLength, cIsTimeValue, cDesc, cUnits, cExtra>>,
             <<nGear, tInt32, sOne, sfalse, dCurrentGear, sEmpty, sOne>>>>
      [] p = "long.csv" ->
           <<StdHeader,
             <<nLapDist, tSingle, sOne, sfalse, dLapDistance, uM, sThree>>>>
      [] p = "reorder.csv" ->
           <<<<cType, cName, cLength, cIsTimeValue, cDesc, cUnits>>,
             <<tSingle>>>>
      [] p = "swapped.csv" ->
           <<<<cType, cName, cLength, cIsTimeValue, cDesc, cUnits>>,
             <<tInt32, nLap, sOne, strue, dLaps, sEmpty>>,
             <<tSingle, nSpeed, sOne, sfalse, dCarSpeed, uMph>>>>
      [] p = "noname.csv" ->
           <<<<cId, cType, cLength, cIsTimeValue, cDesc, cUnits>>,
             <<nGear, tInt32, sOne, sfalse, dCurrentGear, sEmpty>>>>
      [] p = "hdr.csv" ->
           <<StdHeader>>
      [] OTHER ->
           <<>>]

Paths == DOMAIN FileContent

\* what an output file left over from an earlier build holds
StaleOutput == <<StdHeader, <<nGear, tInt32, sOne, sfalse, dDifferent, uMph>>>>

(***************************************************************************)
(* findDistinctVars.py: state.                                             *)
(***************************************************************************)
VARIABLES
  disk,          \* the paths the glob pattern matches
  out_exists,    \* whether output_file exists
  out,           \* the rows of output_file
  m_pc,          \* position of the merger in its script
  csv_files,     \* glob.glob(path)
  unique_rows,   \* dict name -> row, as the sequence of its items in insertion order
  fi,            \* index in csv_files of the file of the for loop
  headers,       \* the stripped header of the open file
  ri,            \* index of the next line the reader of the open file returns
  sorted_rows,   \* sorted(unique_rows.values(), ...)
  wi,            \* index in sorted_rows of the next row writerows writes
  m_error,       \* the exception that ended the run, or "none"
  run,           \* number of the current run
  prev_out,      \* history: the rows of output_file when the current run started
  prev_status    \* history: how the previous run ended: "done", "failed", or "none"

mvars == <<disk, out_exists, out, m_pc, csv_files, unique_rows, fi, headers, ri,
           sorted_rows, wi, m_error, run, prev_out, prev_status>>


(***************************************************************************)
(* csv-to-cs.py: state.                                                    *)
(***************************************************************************)
VARIABLES
  input_csv,     \* the rows of the file args.input_csv
  g_pc,          \* position of the generator in its script
  fieldnames,    \* reader.fieldnames, None until the header line is read
  gi,            \* index of the next line the reader returns
  output_type,   \* type_mapping.get(type_) of the row of the loop
  output_lines,  \* the list output_lines
  txt_exists,    \* whether args.output_txt exists
  txt,           \* the text of args.output_txt
  g_error,       \* the exception that ended the run, or "none"
  consumed       \* history: the indices in input_csv of the rows the loop got

gvars == <<input_csv, g_pc, fieldnames, gi, output_type, output_lines, txt_exists,
           txt, g_error, consumed>>

vars == <<mvars, gvars>>

\* the state of a script that is not run
MergerIdle ==
  /\ disk = {}
  /\ out_exists = FALSE
  /\ out = <<>>
  /\ m_pc = "idle"
  /\ csv_files = <<>>
  /\ unique_rows = <<>>
  /\ fi = 0
  /\ headers = <<>>
  /\ ri = 0
  /\ sorted_rows = <<>>
  /\ wi = 0
  /\ m_error = "none"
  /\ run = 0
  /\ prev_out = <<>>
  /\ prev_status = "none"

GeneratorIdle ==
  /\ input_csv = <<>>
  /\ g_pc = "idle"
  /\ fieldnames = <<>>
  /\ gi = 0
  /\ output_type = <<>>
  /\ output_lines = <<>>
  /\ txt_exists = FALSE
  /\ txt = <<>>
  /\ g_error = "none"
  /\ consumed = <<>>

(***************************************************************************)
(* csv.DictReader and csv.DictWriter, as the two scripts use them.         *)
(***************************************************************************)
Max(S) == CHOOSE x \in S : \A y \in S : y <= x

\* DictReader.__next__: the dict of one row; restkey and restval are None
DictReaderRow(names, row) ==
  LET lf == Len(names)
      lr == Len(row)
      keys == Range(names) \cup (IF lf < lr THEN {None} ELSE {})
  IN  [k \in keys |->
        IF k = None
        THEN SubSeq(row, lf + 1, lr)
        ELSE LET idx == {i \in 1..lf : names[i] = k}
             IN  IF \E i \in idx : i > lr THEN None ELSE row[Max(idx)]]

\* index of the first line at or after i that is not blank, or 0: DictReader
\* skips the rows that are []
RECURSIVE NextRow(_, _)
NextRow(lines, i) ==
  IF i > Len(lines) THEN 0
  ELSE IF lines[i] = <<>> THEN NextRow(lines, i + 1)
  ELSE i

\* the csv writer writes None as the empty string
WriterCell(v) == IF v = None THEN <<>> ELSE v

\* DictWriter._dict_to_list: rowdict.get(key, restval) for key in fieldnames,
\* restval being ''
DictToList(names, rowdict) ==
  [i \in 1..Len(names) |->
    IF names[i] \in DOMAIN rowdict THEN WriterCell(rowdict[names[i]]) ELSE <<>>]

\* DictWriter._dict_to_list: the keys that raise ValueError (extrasaction='raise')
WrongFields(names, rowdict) == DOMAIN rowdict \ Range(names)

(***************************************************************************)
(* findDistinctVars.py: helpers.                                           *)
(***************************************************************************)
header_order == <<cName, cType, cLength, cIsTimeValue, cDesc, cUnits>>

\* [header.strip() for header in headers]
StripHeaders(hs) == [i \in DOMAIN hs |-> Strip(hs[i])]

\* name in unique_rows
InDict(d, name) == \E i \in DOMAIN d : d[i].key = name

\* the store without its test: a later row of the same name replaces the record
LastSeenWins(d, name, row) ==
  IF InDict(d, name)
  THEN [i \in DOMAIN d |-> IF d[i].key = name THEN [key |-> name, value |-> row] ELSE d[i]]
  ELSE Append(d, [key |-> name, value |-> row])

\* if name not in unique_rows: unique_rows[name] = row
StoreRow(d, name, row) ==
  IF InDict(d, name) THEN d ELSE Append(d, [key |-> name, value |-> row])

\* unique_rows.values()
Values(d) == [i \in DOMAIN d |-> d[i].value]

\* the place of row r in the sorted list s: after every row whose key is not
\* greater (sorted() is stable)
RECURSIVE InsertByName(_, _)
InsertByName(s, r) ==
  IF s = <<>> THEN <<r>>
  ELSE IF StrLess(r[cName], Head(s)[cName]) THEN <<r>> \o s
  ELSE <<Head(s)>> \o InsertByName(Tail(s), r)

RECURSIVE SortByName(_)
SortByName(rows) ==
  IF rows = <<>> THEN <<>>
  ELSE InsertByName(SortByName(SubSeq(rows, 1, Len(rows) - 1)), rows[Len(rows)])

\* the values left in the order the dict holds them
InsertionOrder(rows) == rows

\* sorted(unique_rows.values(), key=lambda row: row['name'])
Sorted(rows) == SortByName(rows)

\* '<' between None and str raises TypeError; sorted() compares every key of a
\* list of two or more
SortRaises(rows) == Len(rows) >= 2 /\ \E i \in DOMAIN rows : rows[i][cName] = None

\* the orders glob.glob may list the matched paths in
Listings(paths) ==
  {s \in [1..Cardinality(paths) -> paths] : \A i, j \in DOMAIN s : i # j => s[i] # s[j]}


\* the header written whether or not there are rows
WritesHeaderAlways(rows) == TRUE

\* if sorted_rows:
WritesHeader(rows) == rows # <<>>

(***************************************************************************)
(* findDistinctVars.py: the run, one action per step of the script.        *)
(***************************************************************************)
MergerInit ==
  /\ disk \in {d \in SUBSET Paths : Cardinality(d) <= MaxFiles}
  /\ out_exists \in BOOLEAN
  /\ out = IF out_exists THEN StaleOutput ELSE <<>>
  /\ m_pc = "glob"
  /\ csv_files = <<>>
  /\ unique_rows = <<>>
  /\ fi = 0
  /\ headers = <<>>
  /\ ri = 0
  /\ sorted_rows = <<>>
  /\ wi = 0
  /\ m_error = "none"
  /\ run = 1
  /\ prev_out = out
  /\ prev_status = "none"
  /\ GeneratorIdle

\* an unhandled exception ends the run
MergerRaise(e) ==
  /\ m_pc' = "failed"
  /\ m_error' = e

\* csv_files = glob.glob(path); unique_rows = {}
Glob ==
  /\ UNCHANGED gvars
  /\ m_pc = "glob"
  /\ \E listing \in Listings(disk) :
       /\ csv_files' = listing
       /\ m_pc' = IF listing = <<>> THEN "sort" ELSE "open"
  /\ unique_rows' = <<>>
  /\ fi' = 1
  /\ UNCHANGED <<disk, out_exists, out, headers, ri, sorted_rows, wi, m_error, run, prev_out, prev_status>>

\* with open(file): headers = next(reader), stripped; reader = csv.DictReader(f, fieldnames=headers)
OpenFile ==
  /\ UNCHANGED gvars
  /\ m_pc = "open"
  /\ LET lines == FileContent[csv_files[fi]]
     IN  IF lines = <<>>
         THEN /\ MergerRaise("StopIteration")
              /\ UNCHANGED <<headers, ri>>
         ELSE /\ headers' = StripHeaders(lines[1])
              /\ ri' = 2
              /\ m_pc' = "read"
              /\ UNCHANGED m_error
  /\ UNCHANGED <<disk, out_exists, out, csv_files, unique_rows, fi, sorted_rows, wi, run, prev_out, prev_status>>

\* one iteration of "for row in reader"
ReadRow ==
  /\ UNCHANGED gvars
  /\ m_pc = "read"
  /\ LET lines == FileContent[csv_files[fi]]
         l == NextRow(lines, ri)
     IN  /\ l # 0
         /\ ri' = l + 1
         /\ LET row == DictReaderRow(headers, lines[l])
            IN  IF cName \notin DOMAIN row
                THEN /\ MergerRaise("KeyError")
                     /\ UNCHANGED unique_rows
                ELSE /\ unique_rows' = StoreRow(unique_rows, row[cName], row)
                     /\ UNCHANGED <<m_pc, m_error>>
  /\ UNCHANGED <<disk, out_exists, out, csv_files, fi, headers, sorted_rows, wi, run, prev_out, prev_status>>

\* the reader is exhausted: the file is closed and the outer loop goes on
EndOfFile ==
  /\ UNCHANGED gvars
  /\ m_pc = "read"
  /\ LET lines == FileContent[csv_files[fi]]
     IN  /\ NextRow(lines, ri) = 0
         /\ ri' = Len(lines) + 1
  /\ IF fi < Len(csv_files)
     THEN /\ fi' = fi + 1
          /\ m_pc' = "open"
     ELSE /\ m_pc' = "sort"
          /\ UNCHANGED fi
  /\ UNCHANGED <<disk, out_exists, out, csv_files, unique_rows, headers, sorted_rows, wi,
                 m_error, run, prev_out, prev_status>>

\* sorted_rows = sorted(unique_rows.values(), key=lambda row: row['name'])
SortRows ==
  /\ UNCHANGED gvars
  /\ m_pc = "sort"
  /\ IF SortRaises(Values(unique_rows))
     THEN /\ MergerRaise("TypeError")
          /\ UNCHANGED sorted_rows
     ELSE /\ sorted_rows' = Sorted(Values(unique_rows))
          /\ m_pc' = "write"
          /\ UNCHANGED m_error
  /\ UNCHANGED <<disk, out_exists, out, csv_files, unique_rows, fi, headers, ri, wi, run, prev_out, prev_status>>

\* with open(output_file, mode='w'): if sorted_rows: writer.writeheader()
OpenOutput ==
  /\ UNCHANGED gvars
  /\ m_pc = "write"
  /\ out_exists' = TRUE
  /\ IF WritesHeader(sorted_rows)
     THEN /\ out' = <<header_order>>
          /\ wi' = 1
          /\ m_pc' = IF sorted_rows = <<>> THEN "done" ELSE "writerows"
     ELSE /\ out' = <<>>
          /\ m_pc' = "done"
          /\ UNCHANGED wi
  /\ UNCHANGED <<disk, csv_files, unique_rows, fi, headers, ri, sorted_rows, m_error, run, prev_out, prev_status>>

\* writer.writerows(sorted_rows), one row; after the last row the file is
\* closed and the message printed
WriteRow ==
  /\ UNCHANGED gvars
  /\ m_pc = "writerows"
  /\ LET row == sorted_rows[wi]
     IN  IF WrongFields(header_order, row) # {}
         THEN /\ MergerRaise("ValueError")
              /\ UNCHANGED <<out, wi>>
         ELSE /\ out' = Append(out, DictToList(header_order, row))
              /\ wi' = wi + 1
              /\ m_pc' = IF wi = Len(sorted_rows) THEN "done" ELSE "writerows"
              /\ UNCHANGED m_error
  /\ UNCHANGED <<disk, out_exists, csv_files, unique_rows, fi, headers, ri, sorted_rows, run, prev_out, prev_status>>

\* the script is run again over the same directory
Rerun ==
  /\ UNCHANGED gvars
  /\ m_pc \in {"done", "failed"}
  /\ run < MaxRuns
  /\ run' = run + 1
  /\ prev_out' = out
  /\ prev_status' = m_pc
  /\ m_pc' = "glob"
  /\ csv_files' = <<>>
  /\ unique_rows' = <<>>
  /\ fi' = 0
  /\ headers' = <<>>
  /\ ri' = 0
  /\ sorted_rows' = <<>>
  /\ wi' = 0
  /\ m_error' = "none"
  /\ UNCHANGED <<disk, out_exists, out>>

MergerNext ==
  \/ Glob
  \/ OpenFile
  \/ ReadRow
  \/ EndOfFile
  \/ SortRows
  \/ OpenOutput
  \/ WriteRow
  \/ Rerun


(***************************************************************************)
(* csv-to-cs.py: helpers.                                                  *)
(***************************************************************************)
type_mapping ==
  [t \in {tString, tStringA, tBoolean, tBooleanA, tInt32, tInt32A, tUInt32, tUInt32A,
          tSingle, tSingleA, tDouble, tDoubleA} |->
    CASE t \in {tString, tStringA} -> 0
      [] t \in {tBoolean, tBooleanA} -> 1
      [] t \in {tInt32, tInt32A} -> 2
      [] t \in {tUInt32, tUInt32A} -> 3
      [] t \in {tSingle, tSingleA} -> 4
      [] OTHER -> 5]

\* a table that gives the array forms tags of their own
TypeMappingGetArrayShifted(t) ==
  IF t \in DOMAIN type_mapping
  THEN IF t[Len(t)] = "]" THEN <<type_mapping[t] + 6>> ELSE <<type_mapping[t]>>
  ELSE <<>>

\* type_mapping.get(type_): the value as <<tag>>, and <<>> for None
TypeMappingGet(t) == IF t \in DOMAIN type_mapping THEN <<type_mapping[t]>> ELSE <<>>

Digits == <<"0", "1", "2", "3", "4", "5", "6", "7", "8", "9">>

\* str(n) of an int n >= 0
RECURSIVE IntStr(_)
IntStr(n) == IF n < 10 THEN <<Digits[n + 1]>> ELSE IntStr(n \div 10) \o <<Digits[(n % 10) + 1]>>

\* how the f-string renders output_type: an int, or None
TagStr(v) == IF v = <<>> THEN sNone ELSE IntStr(v[1])

\* how the f-string renders a field: a str, or None for a field the row lacks
PyStr(v) == IF v = None THEN sNone ELSE v

\* str(b) of a bool
BoolStr(b) == IF b THEN sTrue ELSE sFalse

\* the comparison without lower()
IsTimeValueExact(v) == v = strue

\* row['isTimeValue'].lower() == 'true'

IsTimeValue(v) == Lower(v) = strue

\* the f-string of line 60
FormattedLine(name, tag, length, isTimeValue, desc, units) ==
  <<"{", " ", "\"">> \o PyStr(name)
    \o <<"\"", ",", " ", "n", "e", "w", " ", "V", "a", "r", "I", "t", "e", "m", "(", "\"">>
    \o PyStr(name)
    \o <<"\"", ",", " ">> \o TagStr(tag)
    \o <<",", " ">> \o PyStr(length)
    \o <<",", " ">> \o Lower(BoolStr(isTimeValue))
    \o <<",", " ", "\"">> \o PyStr(desc)
    \o <<"\"", ",", " ", "\"">> \o PyStr(units)
    \o <<"\"", ")", " ", "}", ",">>

\* '\n'.join(lines)
RECURSIVE JoinLines(_)
JoinLines(lines) ==
  IF lines = <<>> THEN <<>>
  ELSE IF Len(lines) = 1 THEN lines[1]
  ELSE lines[1] \o <<"\n">> \o JoinLines(Tail(lines))

\* an append that skips a line the list already holds
AppendUnlessPresent(lines, line) == IF line \in Range(lines) THEN lines ELSE Append(lines, line)

\* output_lines.append(formatted_line)
AppendLine(lines, line) == Append(lines, line)

\* the first of the keys, in the order the loop body reads them, that makes
\* the body raise, as <<key, exception>>; <<>> when the body completes
RECURSIVE FirstRaise(_, _)
FirstRaise(row, keys) ==
  IF keys = <<>> THEN <<>>
  ELSE IF Head(keys) \notin DOMAIN row THEN <<Head(keys), "KeyError">>
  ELSE IF Head(keys) = cIsTimeValue /\ row[cIsTimeValue] = None
       THEN <<cIsTimeValue, "AttributeError">>
  ELSE FirstRaise(row, Tail(keys))

(***************************************************************************)
(* csv-to-cs.py: the input tables.                                         *)
(***************************************************************************)
KnownTypes == {tString, tStringA, tBoolean, tBooleanA, tInt32, tInt32A, tUInt32, tUInt32A,
               tSingle, tSingleA, tDouble, tDoubleA}

GenRowPool ==
  {<<nGear, t, sOne, sfalse, dCurrentGear, sEmpty>> : t \in KnownTypes \cup {tVector3, tsingle}}
  \cup
  {<<nSpeed, tSingleA, sThree, sfalse, dCarSpeed, uMs>>,
   <<nSpeed, tSingle, sOne, strue, dCarSpeed, uMs>>,
   <<nSpeed, tDouble, sThree, sTrue, dCarSpeed, uMph>>,
   <<nRPM, tSingle, sOne, sTRUE, dEngineRpm, uRevs>>,
   <<nGear, tInt32, sOne, sOne, dQuoted, sEmpty>>,
   <<nGear, tInt32, sOne, sEmpty, dCurrentGear, uM>>,
   <<nLap, tInt32>>,
   <<nLap, tInt32, sOne, sfalse, dLaps>>,
   <<nLap, tInt32, sOne, sfalse, dLaps, sEmpty, sOne>>,
   <<>>}

GenHeaders ==
  {StdHeader,
   SpacedHeader,
   <<cName, cType, cLength, cIsTimeValue, cUnits, cDesc>>,
   <<cName, cType, cLength, cIsTimeValue, cDesc>>}

GenTables ==
  {<<>>} \cup
  {<<h>> \o rows : h \in GenHeaders, rows \in UNION {[1..n -> GenRowPool] : n \in 0..MaxRows}}

(***************************************************************************)
(* csv-to-cs.py: the run.                                                  *)
(***************************************************************************)
GeneratorInit ==
  /\ input_csv \in GenTables
  /\ g_pc = "open"
  /\ fieldnames = <<>>
  /\ gi = 0
  /\ output_type = <<>>
  /\ output_lines = <<>>
  /\ txt_exists = FALSE
  /\ txt = <<>>
  /\ g_error = "none"
  /\ consumed = <<>>
  /\ MergerIdle

\* with open(args.input_csv): reader = csv.DictReader(csv_file); output_lines = []
OpenInput ==
  /\ UNCHANGED mvars
  /\ g_pc = "open"
  /\ g_pc' = "loop"
  /\ gi' = 1
  /\ output_lines' = <<>>
  /\ UNCHANGED <<input_csv, fieldnames, output_type, txt_exists, txt, g_error, consumed>>

\* the header line, read by the first next(reader)
FieldNames == IF gi = 1 /\ input_csv # <<>> THEN input_csv[1] ELSE fieldnames

\* the line the reader returns next, 0 when it is exhausted
NextLine == IF input_csv = <<>> THEN 0 ELSE NextRow(input_csv, IF gi = 1 THEN 2 ELSE gi)

BodyKeys == <<cName, cType, cLength, cIsTimeValue, cDesc, cUnits>>

\* one iteration of "for row in reader"
FormatRow ==
  /\ UNCHANGED mvars
  /\ g_pc = "loop"
  /\ NextLine # 0
  /\ fieldnames' = FieldNames
  /\ gi' = NextLine + 1
  /\ consumed' = Append(consumed, NextLine)
  /\ LET row == DictReaderRow(FieldNames, input_csv[NextLine])
         raised == FirstRaise(row, BodyKeys)
     IN  IF raised # <<>>
         THEN /\ g_pc' = "failed"
              /\ g_error' = raised[2]
              /\ UNCHANGED <<output_type, output_lines>>
         ELSE /\ output_type' = TypeMappingGet(row[cType])
              /\ output_lines' =
                   AppendLine(output_lines,
                              FormattedLine(row[cName], TypeMappingGet(row[cType]), row[cLength],
                                            IsTimeValue(row[cIsTimeValue]), row[cDesc],
                                            row[cUnits]))
              /\ UNCHANGED <<g_pc, g_error>>
  /\ UNCHANGED <<input_csv, txt_exists, txt>>

\* the reader is exhausted: the input file is closed
EndOfInput ==
  /\ UNCHANGED mvars
  /\ g_pc = "loop"
  /\ NextLine = 0
  /\ fieldnames' = FieldNames
  /\ gi' = Len(input_csv) + 1
  /\ g_pc' = "write"
  /\ UNCHANGED <<input_csv, output_type, output_lines, txt_exists, txt, g_error, consumed>>

\* txt_file.write('\n'.join(output_lines) + '\n'), and the message
WriteTxt ==
  /\ UNCHANGED mvars
  /\ g_pc = "write"
  /\ txt_exists' = TRUE
  /\ txt' = JoinLines(output_lines) \o <<"\n">>
  /\ g_pc' = "done"
  /\ UNCHANGED <<input_csv, fieldnames, gi, output_type, output_lines, g_error, consumed>>

GeneratorNext ==
  \/ OpenInput
  \/ FormatRow
  \/ EndOfInput
  \/ WriteTxt

(***************************************************************************)
(* The specifications: each script runs on its own.                        *)
(***************************************************************************)
MergerSpec == MergerInit /\ [][MergerNext]_vars

GeneratorSpec == GeneratorInit /\ [][GeneratorNext]_vars


(***************************************************************************)
(* Catalog Merger: what the input holds, read off the files themselves.    *)
(***************************************************************************)
\* stands for a field the row does not supply
Absent == <<"<absent>">>

Min(S) == CHOOSE x \in S : \A y \in S : x <= y

\* the field of line l of file p under column col
InputField(p, l, col) ==
  LET hs == FileContent[p][1]
      line == FileContent[p][l]
      js == {j \in DOMAIN hs : Strip(hs[j]) = col /\ j <= Len(line)}
  IN  IF js = {} THEN Absent ELSE line[Min(js)]

\* the data rows of the listed files, as <<index in csv_files, line>>
DataPositions ==
  {pos \in UNION {{<<k, l>> : l \in 2..Len(FileContent[csv_files[k]])} : k \in DOMAIN csv_files} :
     FileContent[csv_files[pos[1]]][pos[2]] # <<>>}

Before(p, q) == p[1] < q[1] \/ (p[1] = q[1] /\ p[2] < q[2])

NameAt(pos) == InputField(csv_files[pos[1]], pos[2], cName)

\* the earliest row, in traversal order, that carries name n
Earliest(n) ==
  CHOOSE pos \in DataPositions :
    /\ NameAt(pos) = n
    /\ \A q \in DataPositions : NameAt(q) = n => (q = pos \/ Before(pos, q))

\* the six fields of the row at pos; a column the row does not supply is blank
RecordAt(pos) ==
  [j \in 1..6 |->
    LET v == InputField(csv_files[pos[1]], pos[2], StdHeader[j])
    IN  IF v = Absent THEN <<>> ELSE v]

\* the data rows of the output file: the lines after the header line
DataRows == IF out = <<>> THEN <<>> ELSE Tail(out)

\* s <= t by the code points of the first place where s and t differ
OrdinalLE(s, t) ==
  LET d == {i \in 1..Len(s) : i <= Len(t) /\ s[i] # t[i]}
  IN  IF d = {} THEN Len(s) <= Len(t) ELSE Ord(s[Min(d)]) < Ord(t[Min(d)])

\* every listed file has the six-column header and six fields on every data row
WellFormedInput ==
  \A k \in DOMAIN csv_files :
    LET lines == FileContent[csv_files[k]]
    IN  /\ lines # <<>>
        /\ StripHeaders(lines[1]) = StdHeader
        /\ \A l \in 2..Len(lines) : lines[l] = <<>> \/ Len(lines[l]) = 6

\* the reading loops are over
ReadingOver ==
  \/ m_pc \in {"sort", "write", "writerows", "done"}
  \/ m_pc = "failed" /\ m_error \in {"TypeError", "ValueError"}

\* the output file was opened for writing in this run
OutputOpened ==
  \/ m_pc \in {"writerows", "done"}
  \/ m_pc = "failed" /\ m_error = "ValueError"

(***************************************************************************)
(* Catalog Merger: the claims.                                             *)
(***************************************************************************)
\* C1 (first-seen-wins): when a run completes, every name carried by an input
\* row has exactly one record in the output, whose six fields are those of
\* the earliest row, in traversal order, carrying that name (a column that
\* row does not supply is blank); and when every row carries a name, every
\* output record's name is carried by an input row.
C1_FirstSeenWins ==
  m_pc = "done" =>
    LET carried == {NameAt(pos) : pos \in DataPositions}
    IN  /\ \A n \in carried \ {Absent} :
             /\ Cardinality({i \in DOMAIN DataRows : DataRows[i][1] = n}) = 1
             /\ \A i \in DOMAIN DataRows :
                  DataRows[i][1] = n => DataRows[i] = RecordAt(Earliest(n))
        /\ Absent \notin carried =>
             \A i \in DOMAIN DataRows : DataRows[i][1] \in carried

\* a run completed in which two files carry the name Speed with different
\* fields, b.csv listed first, and the record written is that of b.csv
C1_Witness ==
  /\ m_pc = "done"
  /\ csv_files = <<"b.csv", "a.csv">>
  /\ \E i \in DOMAIN DataRows : DataRows[i] = <<nSpeed, tSingle, sOne, sfalse, dDifferent, uMph>>
  /\ \A i \in DOMAIN DataRows : DataRows[i] # <<nSpeed, tSingle, sOne, sfalse, dCarSpeed, uMs>>

\* C2 (sort invariant): in every state the data rows of the output file are
\* ordered by name under ordinal comparison: name[i] <= name[i+1] for every
\* pair of adjacent records.
C2_SortInvariant ==
  \A i \in DOMAIN DataRows :
    i < Len(DataRows) => OrdinalLE(DataRows[i][1], DataRows[i + 1][1])

\* a run completed whose rows were read in an order that is not the order of
\* their names, an upper-case name sorting before a lower-case one
C2_Witness ==
  /\ m_pc = "done"
  /\ Len(DataRows) >= 4
  /\ Values(unique_rows) # sorted_rows
  /\ DataRows[Len(DataRows)][1] = ndcABS

\* C7 (zero matched files): a run whose glob pattern matches no file never
\* completes successfully.
C7_ZeroFilesFail == ~(m_pc = "done" /\ csv_files = <<>>)

\* C8 (malformed row): a run whose input holds a data row that lacks one of
\* the six required columns never completes successfully.
C8_MalformedRowFails ==
  m_pc = "done" =>
    \A pos \in DataPositions : \A j \in 1..6 :
      InputField(csv_files[pos[1]], pos[2], StdHeader[j]) # Absent

\* C9 (idempotence): a run that completes after a completed run over the
\* same set of files leaves the output the previous run left, whatever the
\* traversal orders of the two runs (stated here for well-formed files, the
\* case no reading of the claim leaves out).
C9_Idempotent ==
  (m_pc = "done" /\ prev_status = "done" /\ WellFormedInput) => out = prev_out

\* C10 (header emission): once the output file is opened, it starts with the
\* header line name, type, length, isTimeValue, desc, units, followed by the
\* data rows written so far, exactly when the deduplicated set is not empty,
\* and holds nothing when the set is empty; and a run whose reading ends with
\* an empty set does not fail.
C10_HeaderEmission ==
  /\ OutputOpened =>
       /\ out_exists
       /\ unique_rows # <<>> =>
            /\ out # <<>>
            /\ out[1] = <<cName, cType, cLength, cIsTimeValue, cDesc, cUnits>>
            /\ Len(out) = wi
            /\ m_pc = "done" => Len(DataRows) = Len(unique_rows)
       /\ unique_rows = <<>> => out = <<>>
  /\ (ReadingOver /\ unique_rows = <<>>) => m_pc # "failed"

\* a run over header-only files completed: the file left over from an earlier
\* build is truncated to nothing
C10_Witness ==
  /\ m_pc = "done"
  /\ csv_files = <<"hdr.csv">>
  /\ prev_out # <<>>
  /\ out_exists
  /\ out = <<>>


(***************************************************************************)
(* Literal Generator: what the input table holds, read off the table.      *)
(***************************************************************************)
\* the field of line l of the input table under column col
GenField(l, col) ==
  LET hs == input_csv[1]
      line == input_csv[l]
      js == {j \in DOMAIN hs : hs[j] = col /\ j <= Len(line)}
  IN  IF js = {} THEN Absent ELSE line[Min(js)]

\* line l supplies the six columns
Complete(l) == \A j \in 1..6 : GenField(l, StdHeader[j]) # Absent

\* the data rows of the input table: the lines after the header that are not blank
GenDataLines == {l \in 2..Len(input_csv) : input_csv[l] # <<>>}

\* a Text as a string
RECURSIVE Str(_)
Str(t) == IF t = <<>> THEN "" ELSE Head(t) \o Str(Tail(t))

\* the type-tag table of the specification
TagOf(t) ==
  CASE t = tString -> 0 [] t = tStringA -> 0
    [] t = tBoolean -> 1 [] t = tBooleanA -> 1
    [] t = tInt32 -> 2 [] t = tInt32A -> 2
    [] t = tUInt32 -> 3 [] t = tUInt32A -> 3
    [] t = tSingle -> 4 [] t = tSingleA -> 4
    [] t = tDouble -> 5 [] t = tDoubleA -> 5

TagText(t) == <<"0", "1", "2", "3", "4", "5">>[TagOf(t) + 1]

\* v is "true", in any mix of upper and lower case
TrueIgnoringCase(v) ==
  /\ Len(v) = 4
  /\ v[1] \in {"t", "T"}
  /\ v[2] \in {"r", "R"}
  /\ v[3] \in {"u", "U"}
  /\ v[4] \in {"e", "E"}

\* the literal line of the specification for the complete line l
ExpectedLine(l) ==
  "{ \"" \o Str(GenField(l, cName)) \o "\", new VarItem(\"" \o Str(GenField(l, cName))
    \o "\", " \o TagText(GenField(l, cType))
    \o ", " \o Str(GenField(l, cLength))
    \o ", " \o (IF TrueIgnoringCase(GenField(l, cIsTimeValue)) THEN "true" ELSE "false")
    \o ", \"" \o Str(GenField(l, cDesc))
    \o "\", \"" \o Str(GenField(l, cUnits)) \o "\") },"

\* what every literal line of a row named n starts with, up to the type tag
LinePrefix(n) ==
  <<"{", " ", "\"">> \o n
    \o <<"\"", ",", " ", "n", "e", "w", " ", "V", "a", "r", "I", "t", "e", "m", "(", "\"">>
    \o n \o <<"\"", ",", " ">>

StartsWith(s, prefix) == Len(s) >= Len(prefix) /\ SubSeq(s, 1, Len(prefix)) = prefix

\* where the i-th line starts in the text written
RECURSIVE Offset(_)
Offset(i) == IF i = 1 THEN 1 ELSE Offset(i - 1) + Len(output_lines[i - 1]) + 1

(***************************************************************************)
(* Literal Generator: the claims.                                          *)
(***************************************************************************)
\* C3 (unknown type is rejected): no literal line is ever emitted for a row
\* whose type is outside the twelve-name vocabulary (stated here for the rows
\* of a table with the canonical header that supply the six columns).
C3_UnknownTypeRejected ==
  \A i \in DOMAIN output_lines :
    (input_csv[1] = StdHeader /\ Len(input_csv[consumed[i]]) = 6) =>
      GenField(consumed[i], cType) \in KnownTypes

\* C4 (type-tag table): the tag computed and emitted for a row of a known
\* type is the one the table gives for its type string alone: String 0,
\* Boolean 1, Int32 2, UInt32 3, Single 4, Double 5, the same for T and T[].
C4_TypeTagTable ==
  /\ \A i \in DOMAIN output_lines :
       LET t == GenField(consumed[i], cType)
           n == GenField(consumed[i], cName)
       IN  (t \in KnownTypes /\ n # Absent) =>
             StartsWith(output_lines[i], LinePrefix(n) \o <<TagText(t)>> \o <<",", " ">>)
  /\ (g_pc = "loop" /\ consumed # <<>>) =>
       LET t == GenField(consumed[Len(consumed)], cType)
       IN  t \in KnownTypes => output_type = <<TagOf(t)>>

\* a line was emitted for the row (Speed, Single[], 3, ...): an array form,
\* with a length other than 1
C4_Witness ==
  /\ input_csv # <<>>
  /\ input_csv[1] = StdHeader
  /\ \E i \in DOMAIN output_lines :
       /\ input_csv[consumed[i]] = <<nSpeed, tSingleA, sThree, sfalse, dCarSpeed, uMs>>
       /\ StartsWith(output_lines[i], LinePrefix(nSpeed) \o <<"4", ",", " ", "3", ",">>)

\* C5 (line shape): the line emitted for a row that supplies the six columns
\* and has a known type is exactly
\*   { "<name>", new VarItem("<name>", <tag>, <length>, <true|false>, "<desc>", "<units>") },
\* with the fields copied verbatim and true exactly when isTimeValue is
\* "true" ignoring case; (Gear, Int32, 1, false, "current gear", "") gives
\*   { "Gear", new VarItem("Gear", 2, 1, false, "current gear", "") },
C5_LineShape ==
  \A i \in DOMAIN output_lines :
    LET l == consumed[i]
    IN  /\ (Complete(l) /\ GenField(l, cType) \in KnownTypes) =>
             Str(output_lines[i]) = ExpectedLine(l)
        /\ (input_csv[1] = StdHeader
            /\ input_csv[l] = <<nGear, tInt32, sOne, sfalse, dCurrentGear, sEmpty>>) =>
             Str(output_lines[i])
               = "{ \"Gear\", new VarItem(\"Gear\", 2, 1, false, \"current gear\", \"\") },"

\* a line was emitted for a row whose isTimeValue is "TRUE", and it says true
C5_Witness ==
  /\ input_csv # <<>>
  /\ input_csv[1] = StdHeader
  /\ \E i \in DOMAIN output_lines :
       /\ input_csv[consumed[i]] = <<nRPM, tSingle, sOne, sTRUE, dEngineRpm, uRevs>>
       /\ Str(output_lines[i])
            = "{ \"RPM\", new VarItem(\"RPM\", 4, 1, true, \"engine rpm\", \"revs/min\") },"

\* C6 (order and count): the text a completed run writes is one line for each
\* data row of the input, the i-th line derived from the i-th row, the lines
\* separated by one newline and followed by one trailing newline; no row is
\* dropped, merged or moved.
C6_OrderAndCount ==
  g_pc = "done" =>
    /\ Len(output_lines) = Cardinality(GenDataLines)
    /\ \A i \in DOMAIN output_lines :
         /\ Cardinality({l \in GenDataLines : l < consumed[i]}) = i - 1
         /\ consumed[i] \in GenDataLines
         /\ StartsWith(output_lines[i], LinePrefix(GenField(consumed[i], cName)))
         /\ SubSeq(txt, Offset(i), Offset(i) + Len(output_lines[i]) - 1) = output_lines[i]
         /\ txt[Offset(i) + Len(output_lines[i])] = "\n"
    /\ Len(txt) = IF output_lines = <<>> THEN 1 ELSE Offset(Len(output_lines) + 1) - 1
    /\ txt[Len(txt)] = "\n"
    /\ txt_exists

\* a run completed over two rows of the same name and fields: two lines
C6_Witness ==
  /\ g_pc = "done"
  /\ Len(input_csv) = 3
  /\ input_csv[2] = input_csv[3]
  /\ Len(output_lines) = 2
  /\ output_lines[1] = output_lines[2]

====
